---------------------------- MODULE Spec2Model ----------------------------
(***************************************************************************)
(* Transcript-to-slide alignment of semantic_chunking_lectures:            *)
(* TranscriptSlideChunker (src/processors/chunk_matcher.py) and the part   *)
(* of process_lecture (app.py) that drives it.                             *)
(*                                                                         *)
(* Conventions of the model                                                *)
(*  - a sentence is identified by its position 1..n in sentence_list; the  *)
(*    texts are pairwise distinct because sentence_list is the key list of *)
(*    a dict (chunk_matcher.py:55);                                        *)
(*  - a text is a sequence of characters, " " being whitespace;            *)
(*  - an embedding is a pair of integers whose Euclidean norm is an        *)
(*    integer; a cosine similarity s is represented by the integer 100*s;  *)
(*  - a Python dict is the sequence of its items in insertion order;       *)
(*  - None is the empty sequence <<>> where a value may be a record, and   *)
(*    an optional chunk is a sequence of length at most one.               *)
(***************************************************************************)
EXTENDS Integers, Sequences, FiniteSets

VARIABLES
    pc,                   \* where the run is
    slide_pages,          \* input: items <<page_num |-> content>> in insertion order
    sentence_list,        \* input: the transcript sentences, in order
    window_size,          \* input
    similarity_threshold, \* input
    slide_embeddings,     \* local of build_chunks_with_windows
    encoded_pages,        \* the pages whose content was passed to model.encode
    i,                    \* loop variable of the window loop
    window_embedding,     \* local: the embedding of the last window, None before it
    chunks,               \* local of build_chunks_with_windows
    current_chunk,        \* local of build_chunks_with_windows
    returned,             \* value returned by build_chunks_with_windows
    slide_data,           \* value returned by build_simple_dict
    unmatched_transcripts,\* local of process_lecture
    error,                \* exception raised / HTTP status sent, "" if none
    run2,                 \* a second run of the loop over the same windows and
                          \* similarities with another threshold
    script,               \* what the embedder answers, where a scenario fixes it
    history               \* what happened in the run and is no value of the program:
                          \* matched, the pairs <<sentence, page>> of the windows
                          \* whose best similarity reached the threshold, and
                          \* discarded, the number of chunks lost to an exception

vars == <<pc, slide_pages, sentence_list, window_size, similarity_threshold,
          slide_embeddings, encoded_pages, i, window_embedding, chunks, current_chunk, returned,
          slide_data, unmatched_transcripts, error, run2, script, history>>

---------------------------------------------------------------------------
(* Bounds of the model *)

MaxSent == 4

MaxSlides == 2

MaxWindow == 3

\* the window sizes tried: negative, zero and positive
WindowSizes == (0 - 2)..MaxWindow

\* 100 * similarity_threshold, a float the request is free to choose: 60 is the
\* default of app.py:86 and chunk_matcher.py:29, -100 the least cosine similarity
Thresholds == {0 - 100, 60, 80}

\* the embeddings the model may return
Vecs == {<<1, 0>>, <<0, 1>>, <<0 - 1, 0>>, <<3, 4>>}

\* the slide texts tried: whitespace only, and a text with surrounding whitespace
Contents == {<<" ">>, <<" ", "x", " ">>}

\* page numbers are positive and may have gaps (1, 3, 4, ...)
PageNo(j) == IF j = 1 THEN 1 ELSE j + 1

---------------------------------------------------------------------------
(* Pure helpers *)

None == <<>>

Min(a, b) == IF a < b THEN a ELSE b

Max(a, b) == IF a > b THEN a ELSE b

Contains(seq, x) == \E k \in 1..Len(seq) : seq[k] = x

\* str.strip(): removes leading and trailing whitespace
RECURSIVE StripLeft(_)
StripLeft(s) == IF s # <<>> /\ Head(s) = " " THEN StripLeft(Tail(s)) ELSE s

RECURSIVE StripRight(_)
StripRight(s) ==
    IF s # <<>> /\ s[Len(s)] = " " THEN StripRight(SubSeq(s, 1, Len(s) - 1)) ELSE s

Strip(s) == StripRight(StripLeft(s))

\* the emptiness test made on the raw content instead of the stripped one
IsEmptySlideNoStrip(content) == content = <<>>

\* "if cleaned_content:" of _generate_slide_embeddings is false
IsEmptySlide(content) == Strip(content) = <<>>

\* np.zeros(dimension)
Zeros == <<0, 0>>

Dot(a, b) == a[1] * b[1] + a[2] * b[2]

Norm(a) == CHOOSE r \in 0..(Dot(a, a)) : r * r = Dot(a, a)

\* sklearn cosine_similarity: rows are L2-normalised, a zero row is left as it
\* is (its norm is replaced by 1), then the dot product is taken
cosine_similarity(a, b) ==
    LET na == IF Norm(a) = 0 THEN 1 ELSE Norm(a)
        nb == IF Norm(b) = 0 THEN 1 ELSE Norm(b)
    IN  (100 * Dot(a, b)) \div (na * nb)

\* slide_pages[page_num]
Lookup(items, page_num) ==
    LET k == CHOOSE k \in 1..Len(items) : items[k].page_num = page_num
    IN  items[k]

Keys(items) == {items[k].page_num : k \in 1..Len(items)}


---------------------------------------------------------------------------
(* TranscriptSlideChunker *)

\* the loop of _find_best_slide_match over slide_embeddings.items(), from item k
\* on; best_page None is written 0 (no page number is 0)
RECURSIVE ScanSlides(_, _, _, _, _)
ScanSlides(sentence_embedding, embeddings, k, best_page, best_similarity) ==
    IF k > Len(embeddings) THEN <<best_page, best_similarity>>
    ELSE LET similarity == cosine_similarity(sentence_embedding, embeddings[k].embedding)
         IN  IF similarity > best_similarity
             THEN ScanSlides(sentence_embedding, embeddings, k + 1,
                             embeddings[k].page_num, similarity)
             ELSE ScanSlides(sentence_embedding, embeddings, k + 1,
                             best_page, best_similarity)

\* _find_best_slide_match: <<page, similarity>>, or None when best_page is falsy
find_best_slide_match(sentence_embedding, embeddings) ==
    LET best == ScanSlides(sentence_embedding, embeddings, 1, 0, 0 - 100)
    IN  IF best[1] # 0 THEN best ELSE None

\* the step of range(0, len(sentence_list), window_size // 2)
RangeStep(ws) == ws \div 2

\* whether index idx is produced by range(0, n, step), step # 0
InRange(idx, n, step) == IF step > 0 THEN idx < n ELSE idx > n

\* sentence_list[idx:idx + window_size], idx >= 0 (0-based, end exclusive; a
\* negative end counts from the end of the list)
Slice(list, idx, ws) ==
    LET stop == IF idx + ws < 0 THEN Len(list) + idx + ws ELSE idx + ws
    IN  SubSeq(list, idx + 1, Min(stop, Len(list)))

\* a new chunk that records the window's similarity once, not per sentence
NewChunkOneSimilarity(page_num, window_sentences, similarity) ==
    [page_num |-> page_num,
     slide_content |-> Lookup(slide_pages, page_num).content,
     transcript_sentences |-> window_sentences,
     similarities |-> <<similarity>>,
     window_similarity |-> similarity]

\* the chunk opened at chunk_matcher.py:88
NewChunk(page_num, window_sentences, similarity) ==
    [page_num |-> page_num,
     slide_content |-> Lookup(slide_pages, page_num).content,
     transcript_sentences |-> window_sentences,
     similarities |-> [k \in 1..Len(window_sentences) |-> similarity],
     window_similarity |-> similarity]

\* the loop at chunk_matcher.py:97 over window_sentences, from position k on
RECURSIVE ExtendChunk(_, _, _, _)
ExtendChunk(chunk, window_sentences, similarity, k) ==
    IF k > Len(window_sentences) THEN chunk
    ELSE LET sent == window_sentences[k]
         IN  IF ~Contains(chunk.transcript_sentences, sent)
             THEN ExtendChunk(
                    [chunk EXCEPT !.transcript_sentences = Append(@, sent),
                                  !.similarities = Append(@, similarity)],
                    window_sentences, similarity, k + 1)
             ELSE ExtendChunk(chunk, window_sentences, similarity, k + 1)

\* one iteration of the window loop, after the window was embedded: the new
\* values of chunks and current_chunk
LoopBody(cs, cur, window_sentences, embedding, threshold) ==
    LET best_match == find_best_slide_match(embedding, slide_embeddings)
    IN  IF best_match = None THEN [chunks |-> cs, current_chunk |-> cur]
        ELSE LET page_num == best_match[1]
                 similarity == best_match[2]
             IN  IF similarity >= threshold
                 THEN IF cur = None \/ cur[1].page_num # page_num
                      THEN [chunks |-> IF cur # None THEN cs \o cur ELSE cs,
                            current_chunk |->
                                <<NewChunk(page_num, window_sentences, similarity)>>]
                      ELSE [chunks |-> cs,
                            current_chunk |->
                                <<ExtendChunk(cur[1], window_sentences, similarity, 1)>>]
                 ELSE IF cur # None
                      THEN [chunks |-> cs \o cur, current_chunk |-> None]
                      ELSE [chunks |-> cs, current_chunk |-> cur]

\* the return of chunks without the final append of the open chunk
FinalChunksDropped(cs, cur) == cs

\* the final append made without the test "if current_chunk:"
FinalChunksUnguarded(cs, cur) == IF cur # None THEN cs \o cur ELSE Append(cs, None)

\* chunk_matcher.py:108: the final chunk is added
FinalChunks(cs, cur) == IF cur # None THEN cs \o cur ELSE cs

\* build_simple_dict without its initialisation loop
InitSlideDataSkipped(pages) == <<>>

\* the initialisation loop of build_simple_dict
InitSlideData(pages) ==
    [k \in 1..Len(pages) |->
        [page_num |-> pages[k].page_num, content |-> pages[k].content,
         transcripts |-> <<>>]]

\* the chunk loop of build_simple_dict, from chunk k on
RECURSIVE FillSlideData(_, _, _)
FillSlideData(data, cs, k) ==
    IF k > Len(cs) THEN data
    ELSE LET chunk == cs[k]
             slide_num == chunk.page_num
             seeded == IF slide_num \in Keys(data) THEN data
                       ELSE Append(data, [page_num |-> slide_num,
                                          content |-> chunk.slide_content,
                                          transcripts |-> <<>>])
             filled == [j \in 1..Len(seeded) |->
                          IF seeded[j].page_num = slide_num
                          THEN [seeded[j] EXCEPT
                                  !.transcripts = @ \o chunk.transcript_sentences]
                          ELSE seeded[j]]
         IN  FillSlideData(filled, cs, k + 1)

\* build_simple_dict(chunks, slide_pages)
build_simple_dict(cs, pages) ==
    FillSlideData(IF pages # <<>> THEN InitSlideData(pages) ELSE <<>>, cs, 1)

\* total_transcripts of process_lecture (app.py:181)
RECURSIVE total_transcripts(_)
total_transcripts(data) ==
    IF data = <<>> THEN 0
    ELSE Len(Head(data).transcripts) + total_transcripts(Tail(data))

---------------------------------------------------------------------------
(* The best match of a window as the specification words it: the greatest    *)
(* cosine similarity over all slides, and the first slide that has it        *)

\* the similarity of the window to each slide, in the slide map's order
Similarities(embedding, embeddings) ==
    [k \in 1..Len(embeddings) |->
        cosine_similarity(embedding, embeddings[k].embedding)]

\* the first position of the greatest entry of a non-empty sequence
FirstMaximum(sims) ==
    CHOOSE k \in 1..Len(sims) :
        \A j \in 1..Len(sims) : sims[j] < sims[k] \/ (sims[j] = sims[k] /\ k <= j)

MaxSimilarity(embedding, embeddings) ==
    LET sims == Similarities(embedding, embeddings)
    IN  sims[FirstMaximum(sims)]

FirstBestSlide(embedding, embeddings) ==
    embeddings[FirstMaximum(Similarities(embedding, embeddings))].page_num

\* history.matched after a window was embedded
Matched(window_sentences, embedding) ==
    IF slide_embeddings = <<>> THEN history.matched
    ELSE LET sims == Similarities(embedding, slide_embeddings)
             best == FirstMaximum(sims)
         IN  IF sims[best] >= similarity_threshold
             THEN history.matched \cup
                    {<<window_sentences[k], slide_embeddings[best].page_num>> :
                        k \in 1..Len(window_sentences)}
             ELSE history.matched

---------------------------------------------------------------------------
(* The run *)

SlideMaps ==
    UNION {[1..k -> Contents] : k \in 0..MaxSlides}

PagesOf(contents) ==
    [j \in 1..Len(contents) |-> [page_num |-> PageNo(j), content |-> contents[j]]]

Run2Idle == [threshold |-> similarity_threshold, chunks |-> <<>>,
             current_chunk |-> None, slide_data |-> <<>>]

Inputs ==
    /\ \E contents \in SlideMaps : slide_pages = PagesOf(contents)
    /\ \E n \in 0..MaxSent : sentence_list = [k \in 1..n |-> k]
    /\ window_size \in WindowSizes
    /\ similarity_threshold \in Thresholds

Locals ==
    /\ pc = "start"
    /\ slide_embeddings = <<>>
    /\ encoded_pages = {}
    /\ i = 0
    /\ window_embedding = None
    /\ chunks = <<>>
    /\ current_chunk = None
    /\ returned = None
    /\ slide_data = <<>>
    /\ unmatched_transcripts = None
    /\ error = ""
    /\ history = [matched |-> {}, discarded |-> 0]

Init == Inputs /\ Locals /\ run2 = Run2Idle /\ script = <<>>

inputs == <<slide_pages, sentence_list, window_size, similarity_threshold, script>>

\* an exception leaves build_chunks_with_windows: its locals are gone
Raise(e) ==
    /\ pc' = "raised"
    /\ error' = e
    /\ slide_embeddings' = <<>>
    /\ i' = 0
    /\ window_embedding' = None
    /\ chunks' = <<>>
    /\ current_chunk' = None

NonEmptySlides == {k \in 1..Len(slide_pages) : ~IsEmptySlide(slide_pages[k].content)}

\* _generate_slide_embeddings, called at chunk_matcher.py:52; enc[k] is what
\* model.encode returns for slide k
GenerateSlideEmbeddings(enc) ==
    /\ pc = "start"
    /\ slide_embeddings' =
          [k \in 1..Len(slide_pages) |->
              [page_num |-> slide_pages[k].page_num,
               embedding |-> IF k \in NonEmptySlides THEN enc[k] ELSE Zeros]]
    /\ encoded_pages' = {slide_pages[k].page_num : k \in NonEmptySlides}
    /\ pc' = "range"
    /\ UNCHANGED <<inputs, i, window_embedding, chunks, current_chunk, returned,
                   slide_data, unmatched_transcripts, error, run2, history>>

generate_slide_embeddings ==
    \E enc \in [NonEmptySlides -> Vecs] : GenerateSlideEmbeddings(enc)

\* model.encode raises for slide k of _generate_slide_embeddings
generate_slide_embeddings_fails ==
    /\ pc = "start"
    /\ \E k \in NonEmptySlides :
          encoded_pages' =
              {slide_pages[j].page_num : j \in {m \in NonEmptySlides : m <= k}}
    /\ Raise("EmbeddingError")
    /\ UNCHANGED <<inputs, returned, slide_data, unmatched_transcripts, run2,
                   history>>

\* range(0, len(sentence_list), window_size // 2) at chunk_matcher.py:60
start_loop ==
    /\ pc = "range"
    /\ IF RangeStep(window_size) = 0
       THEN /\ Raise("ValueError")
       ELSE /\ pc' = "loop"
            /\ UNCHANGED <<slide_embeddings, i, window_embedding, chunks,
                           current_chunk, error>>
    /\ UNCHANGED <<inputs, encoded_pages, returned, slide_data,
                   unmatched_transcripts, run2, history>>

MoreWindows == InRange(i, Len(sentence_list), RangeStep(window_size))

\* one iteration of the loop, chunk_matcher.py:60-105; embedding is what
\* model.encode returns for the window (not called for an empty window)
ProcessWindow(embedding) ==
    /\ pc = "loop"
    /\ MoreWindows
    /\ LET window_sentences == Slice(sentence_list, i, window_size)
       IN  IF window_sentences = <<>>
           THEN UNCHANGED <<window_embedding, chunks, current_chunk>>
           ELSE LET next == LoopBody(chunks, current_chunk, window_sentences,
                                     embedding, similarity_threshold)
                IN  /\ window_embedding' = <<embedding>>
                    /\ chunks' = next.chunks
                    /\ current_chunk' = next.current_chunk
    /\ i' = i + RangeStep(window_size)
    /\ UNCHANGED <<pc, inputs, slide_embeddings, encoded_pages, returned,
                   slide_data, unmatched_transcripts, error>>

process_window ==
    \E embedding \in Vecs : ProcessWindow(embedding) /\ UNCHANGED <<run2, history>>

\* the exception of model.encode caught inside the loop, which is left with the
\* chunks made so far
process_window_fails_swallowed ==
    /\ pc = "loop"
    /\ MoreWindows
    /\ Slice(sentence_list, i, window_size) # <<>>
    /\ returned' = <<FinalChunks(chunks, current_chunk)>>
    /\ pc' = "returned"
    /\ error' = "EmbeddingError"
    /\ UNCHANGED <<inputs, slide_embeddings, encoded_pages, i, window_embedding,
                   chunks, current_chunk, slide_data, unmatched_transcripts, run2,
                   history>>

\* model.encode raises for the window at chunk_matcher.py:69
process_window_fails ==
    /\ pc = "loop"
    /\ MoreWindows
    /\ Slice(sentence_list, i, window_size) # <<>>
    /\ Raise("EmbeddingError")
    /\ history' = [matched |-> {},
                   discarded |-> Len(chunks) + Len(current_chunk)]
    /\ UNCHANGED <<inputs, encoded_pages, returned, slide_data,
                   unmatched_transcripts, run2>>

\* the loop is over: chunk_matcher.py:107-112; the locals end with the call
ReturnChunks ==
    /\ pc = "loop"
    /\ ~MoreWindows
    /\ returned' = <<FinalChunks(chunks, current_chunk)>>
    /\ pc' = "returned"
    /\ slide_embeddings' = <<>>
    /\ i' = 0
    /\ window_embedding' = None
    /\ chunks' = <<>>
    /\ current_chunk' = None
    /\ UNCHANGED <<inputs, encoded_pages, slide_data, unmatched_transcripts, error,
                   history>>

return_chunks == ReturnChunks /\ UNCHANGED run2

\* a caller assembles the result: build_simple_dict(chunks, slide_pages)
Assemble ==
    /\ pc = "returned"
    /\ slide_data' = build_simple_dict(returned[1], slide_pages)
    /\ pc' = "assembled"
    /\ UNCHANGED <<inputs, slide_embeddings, encoded_pages, i, window_embedding,
                   chunks, current_chunk, returned, unmatched_transcripts, error,
                   history>>

assemble == Assemble /\ UNCHANGED run2

---------------------------------------------------------------------------
(* process_lecture (app.py), around the chunker *)

\* the parameters build_simple_dict takes besides self
BuildSimpleDictParams == 2

\* the arguments process_lecture passes to build_simple_dict
Step4Args == 3

locals == <<slide_embeddings, encoded_pages, i, window_embedding, chunks,
            current_chunk, returned>>

\* app.py:147 and app.py:160: no page, or no transcript sentence
process_lecture_rejects ==
    /\ pc = "start"
    /\ slide_pages = <<>> \/ sentence_list = <<>>
    /\ pc' = "http_error"
    /\ error' = "HTTP400"
    /\ UNCHANGED <<inputs, locals, slide_data, unmatched_transcripts, run2,
                   history>>

\* app.py:177: slide_data, unmatched_transcripts =
\*                 chunker.build_simple_dict(chunks, pages, lines)
\* A call with more positional arguments than parameters raises TypeError.
process_lecture_step4 ==
    /\ pc = "returned"
    /\ slide_pages # <<>> /\ sentence_list # <<>>
    /\ IF Step4Args > BuildSimpleDictParams
       THEN /\ pc' = "step4_raised"
            /\ error' = "TypeError"
            /\ UNCHANGED <<slide_data, unmatched_transcripts>>
       ELSE \* unpacking the returned dict into two names binds its two keys
            LET data == build_simple_dict(returned[1], slide_pages)
            IN  IF Len(data) = 2
                THEN /\ pc' = "step4_done"
                     /\ slide_data' = data[1].page_num
                     /\ unmatched_transcripts' = <<data[2].page_num>>
                     /\ UNCHANGED error
                ELSE /\ pc' = "step4_raised"
                     /\ error' = "ValueError: unpack"
                     /\ UNCHANGED <<slide_data, unmatched_transcripts>>
    /\ UNCHANGED <<inputs, locals, run2, history>>

\* app.py:227: except Exception -> HTTPException(500); the chunk list that
\* process_lecture held is gone with it
process_lecture_catch ==
    /\ pc \in {"raised", "step4_raised"}
    /\ slide_pages # <<>> /\ sentence_list # <<>>
    /\ pc' = "http_error"
    /\ error' = "HTTP500"
    /\ returned' = None
    /\ UNCHANGED <<inputs, slide_embeddings, encoded_pages, i, window_embedding,
                   chunks, current_chunk, slide_data, unmatched_transcripts, run2,
                   history>>

Next ==
    \/ generate_slide_embeddings
    \/ generate_slide_embeddings_fails
    \/ start_loop
    \/ process_window
    \/ process_window_fails
    \/ return_chunks
    \/ assemble
    \/ process_lecture_rejects
    \/ process_lecture_step4
    \/ process_lecture_catch

Spec == Init /\ [][Next]_vars

---------------------------------------------------------------------------
(* Two runs over the same input and the same similarities, the second with a *)
(* higher threshold                                                          *)

\* 100 * similarity_threshold of the two runs
MonoThresholds == {0, 60, 80, 100}

InitMono ==
    /\ \E contents \in SlideMaps : slide_pages = PagesOf(contents)
    /\ \E n \in 0..MaxSent : sentence_list = [k \in 1..n |-> k]
    /\ window_size \in WindowSizes
    /\ similarity_threshold \in MonoThresholds
    /\ Locals
    /\ \E t2 \in MonoThresholds :
          /\ t2 > similarity_threshold
          /\ run2 = [threshold |-> t2, chunks |-> <<>>, current_chunk |-> None,
                     slide_data |-> <<>>]
    /\ script = <<>>

process_window_both ==
    \E embedding \in Vecs :
        /\ ProcessWindow(embedding)
        /\ LET window_sentences == Slice(sentence_list, i, window_size)
               next2 == LoopBody(run2.chunks, run2.current_chunk, window_sentences,
                                 embedding, run2.threshold)
           IN  run2' = IF window_sentences = <<>> THEN run2
                       ELSE [run2 EXCEPT !.chunks = next2.chunks,
                                         !.current_chunk = next2.current_chunk]
        /\ UNCHANGED history

return_chunks_both ==
    /\ ReturnChunks
    /\ run2' = [run2 EXCEPT !.chunks = FinalChunks(run2.chunks, run2.current_chunk),
                            !.current_chunk = None]

assemble_both ==
    /\ Assemble
    /\ run2' = [run2 EXCEPT !.slide_data = build_simple_dict(run2.chunks, slide_pages)]

NextMono ==
    \/ generate_slide_embeddings
    \/ start_loop
    \/ process_window_both
    \/ return_chunks_both
    \/ assemble_both

SpecMono == InitMono /\ [][NextMono]_vars

---------------------------------------------------------------------------
(* The run with a record of what each window matched: history.matched holds  *)
(* the pairs of a sentence and the best slide of a window that reached the   *)
(* threshold                                                                  *)

process_window_recorded ==
    \E embedding \in Vecs :
        /\ ProcessWindow(embedding)
        /\ LET window_sentences == Slice(sentence_list, i, window_size)
           IN  history' = IF window_sentences = <<>> THEN history
                          ELSE [history EXCEPT
                                   !.matched = Matched(window_sentences, embedding)]
        /\ UNCHANGED run2

NextMatched ==
    \/ generate_slide_embeddings
    \/ start_loop
    \/ process_window_recorded
    \/ return_chunks
    \/ assemble

SpecMatched == Init /\ [][NextMatched]_vars

---------------------------------------------------------------------------
(* The example scenario: three slides, six sentences, window_size 2,          *)
(* threshold 0.6, and an embedder whose answers are fixed by script           *)

S1 == <<1, 0>>

S2 == <<0, 1>>

S3 == <<0 - 1, 0>>

InitExample ==
    /\ slide_pages = PagesOf([j \in 1..3 |-> <<"x">>])
    /\ sentence_list = [k \in 1..6 |-> k]
    /\ window_size = 2
    /\ similarity_threshold = 60
    /\ Locals
    /\ run2 = Run2Idle
    /\ \E w \in [1..6 -> {S1, S2, S3}] :
          script = [slides |-> <<S1, S2, S3>>, windows |-> w]

generate_slide_embeddings_scripted == GenerateSlideEmbeddings(script.slides)

process_window_scripted ==
    /\ ProcessWindow(script.windows[(i \div RangeStep(window_size)) + 1])
    /\ UNCHANGED <<run2, history>>

NextExample ==
    \/ generate_slide_embeddings_scripted
    \/ start_loop
    \/ process_window_scripted
    \/ return_chunks
    \/ assemble

SpecExample == InitExample /\ [][NextExample]_vars

---------------------------------------------------------------------------
(* Properties of the assembled result *)

NoDuplicate(seq) == \A a, b \in 1..Len(seq) : a # b => seq[a] # seq[b]

SlidesHolding(data, sent) ==
    {k \in 1..Len(data) : Contains(data[k].transcripts, sent)}

\* C1: after build_chunks_with_windows and build_simple_dict(chunks, slide_pages),
\* no slide's transcript list holds the same sentence more than once.
C1_NoDuplicateInSlide ==
    pc = "assembled" =>
        \A k \in 1..Len(slide_data) : NoDuplicate(slide_data[k].transcripts)

\* C2: no sentence is in the transcript lists of two different slides (every
\* sentence is in one slide's list, or in none and so unmatched).
C2_OneSlidePerSentence ==
    pc = "assembled" =>
        \A sent \in 1..Len(sentence_list) :
            Cardinality(SlidesHolding(slide_data, sent)) <= 1

\* C3: for a non-empty slide map, the keys of the dictionary build_simple_dict
\* returns are exactly the keys of slide_pages, each once.
C3_TotalSlideCoverage ==
    pc = "assembled" /\ slide_pages # <<>> =>
        /\ Keys(slide_data) = Keys(slide_pages)
        /\ Len(slide_data) = Len(slide_pages)

\* a result where one slide got sentences and another slide got none
C3_Witness ==
    /\ pc = "assembled"
    /\ \E a, b \in 1..Len(slide_data) :
          /\ slide_data[a].transcripts = <<>>
          /\ slide_data[b].transcripts # <<>>

\* C4: threshold monotonicity: with the sentences, slides, window size and
\* per-window similarities fixed, the run with the higher threshold never
\* matches more sentences in total (total_transcripts of process_lecture).
C4_ThresholdMonotone ==
    pc = "assembled" /\ run2.threshold > similarity_threshold =>
        total_transcripts(run2.slide_data) <= total_transcripts(slide_data)

\* the sentences of a list that are in no slide's transcript list, in order
UnmatchedOf(data, sentences) ==
    SelectSeq(sentences, LAMBDA sent : SlidesHolding(data, sent) = {})

\* C5: the call of process_lecture, build_simple_dict(chunks, pages, lines),
\* yields the pair (slide_data, unmatched_transcripts), unmatched_transcripts
\* being the sentences that are in no slide's transcript list, in order.
C5_AssemblerReturnsUnmatched ==
    pc \in {"step4_done", "step4_raised"} =>
        /\ error = ""
        /\ slide_data = build_simple_dict(returned[1], slide_pages)
        /\ unmatched_transcripts = <<UnmatchedOf(slide_data, sentence_list)>>

\* C6: in the example scenario with window embeddings S1,S1,S2,S2,S3,S3 the
\* result gives exactly sentences 1-2 to slide 1, 3-4 to slide 2 and 5-6 to
\* slide 3 (so that no sentence is unmatched).
C6_ExampleScenario ==
    pc = "assembled" /\ script.windows = <<S1, S1, S2, S2, S3, S3>> =>
        /\ slide_data[1].transcripts = <<1, 2>>
        /\ slide_data[2].transcripts = <<3, 4>>
        /\ slide_data[3].transcripts = <<5, 6>>
        /\ UnmatchedOf(slide_data, sentence_list) = <<>>

\* C7: for every window_size >= 1 the loop is entered without error, its
\* windows start at multiples of step = max(1, window_size // 2) below n, and
\* each holds the sentences at [start, min(start + window_size, n)), never none.
C7_WindowsOfPositiveSize ==
    window_size >= 1 =>
        /\ error # "ValueError"
        /\ pc = "loop" /\ MoreWindows =>
              LET step == Max(1, window_size \div 2)
                  n == Len(sentence_list)
                  window_sentences == Slice(sentence_list, i, window_size)
              IN  /\ RangeStep(window_size) = step
                  /\ i % step = 0 /\ i < n
                  /\ window_sentences # <<>>
                  /\ window_sentences =
                        [k \in 1..(Min(i + window_size, n) - i) |-> sentence_list[i + k]]

\* C8: for window_size <= 0 the call ends in an error before any window is
\* built or embedded, and never returns a chunk list.
C8_NonPositiveWindowSizeFails ==
    window_size <= 0 =>
        /\ returned = None
        /\ pc \notin {"loop", "returned", "assembled"}

C10_EmptySlide ==
    \A k \in 1..Len(slide_pages) :
        Strip(slide_pages[k].content) = <<>> =>
            /\ slide_pages[k].page_num \notin encoded_pages
            /\ pc \in {"range", "loop"} => slide_embeddings[k].embedding = <<0, 0>>
            /\ pc = "loop" /\ window_embedding # None =>
                  LET e == window_embedding[1]
                      best == find_best_slide_match(e, slide_embeddings)
                  IN  /\ cosine_similarity(e, slide_embeddings[k].embedding) = 0
                      /\ best # None /\ best[1] = slide_pages[k].page_num =>
                            \A j \in 1..Len(slide_embeddings) :
                                j # k => cosine_similarity(
                                            e, slide_embeddings[j].embedding) <= 0

\* a window was processed whose best match is an empty slide, next to a slide
\* that has text
C10_Witness ==
    /\ pc = "loop"
    /\ window_embedding # None
    /\ \E k, j \in 1..Len(slide_pages) :
          /\ Strip(slide_pages[k].content) = <<>>
          /\ Strip(slide_pages[j].content) # <<>>
          /\ find_best_slide_match(window_embedding[1], slide_embeddings)
                = <<slide_pages[k].page_num, 0>>

---------------------------------------------------------------------------
(* Properties of the window loop *)

\* C11: when the embedder fails on a slide or on a window, the run ends with
\* that error: no chunk list is returned, the chunks made before the failure
\* are gone, no window is processed afterwards, and process_lecture answers
\* HTTP 500 without a result.
C11_EmbedderFailureAborts ==
    /\ [](error = "EmbeddingError" =>
            /\ pc = "raised"
            /\ returned = None /\ chunks = <<>> /\ current_chunk = None
            /\ slide_data = <<>>)
    /\ [](pc = "http_error" => returned = None /\ slide_data = <<>>)
    /\ [][error = "EmbeddingError" =>
            /\ pc' = "http_error" /\ error' = "HTTP500"
            /\ UNCHANGED <<chunks, current_chunk, window_embedding, returned,
                           slide_data>>]_vars

\* the embedder failed on a window after chunks had been made
C11_Witness ==
    /\ pc = "raised"
    /\ error = "EmbeddingError"
    /\ history.discarded >= 2
    /\ returned = None

\* C12: a window whose best similarity over all slides is below the
\* threshold seals the open chunk, if there is one, and leaves no chunk open;
\* none of its sentences is added to a chunk. This is to hold for every such
\* similarity, -1 included.
C12_LowSimilaritySeals ==
    [][(/\ pc = "loop" /\ pc' = "loop" /\ i' # i
        /\ slide_embeddings # <<>>
        /\ window_embedding' # None
        /\ MaxSimilarity(window_embedding'[1], slide_embeddings)
              < similarity_threshold)
       => (/\ current_chunk' = None
           /\ chunks' = FinalChunks(chunks, current_chunk))]_vars

\* C13: for a slide map with at least one slide, the best-match selection
\* made for a window returns the slide of maximum cosine similarity to the
\* window, and among slides of equal maximum similarity the first one in the
\* slide map's order.
C13_BestMatchIsFirstMaximum ==
    (/\ pc = "loop"
     /\ window_embedding # None
     /\ slide_embeddings # <<>>)
    => find_best_slide_match(window_embedding[1], slide_embeddings)
          = <<FirstBestSlide(window_embedding[1], slide_embeddings),
              MaxSimilarity(window_embedding[1], slide_embeddings)>>

\* a step of the loop that embedded a window over a non-empty slide map
WindowStep ==
    /\ pc = "loop" /\ pc' = "loop" /\ i' # i
    /\ slide_embeddings # <<>>
    /\ window_embedding' # None

\* C14: a window whose best similarity reaches the threshold, met with no open
\* chunk or with an open chunk of another slide than its best slide, appends
\* the open chunk (if any) unchanged to the output and opens a chunk that has
\* the best slide's page number, exactly the window's sentences in window
\* order and one similarity per sentence, each equal to the window's.
C14_NewChunkOpened ==
    [][WindowStep =>
        LET window_sentences == Slice(sentence_list, i, window_size)
            similarity == MaxSimilarity(window_embedding'[1], slide_embeddings)
            page_num == FirstBestSlide(window_embedding'[1], slide_embeddings)
        IN  (/\ similarity >= similarity_threshold
             /\ (current_chunk = None \/ current_chunk[1].page_num # page_num))
            => (/\ chunks' = FinalChunks(chunks, current_chunk)
                /\ current_chunk' # None
                /\ current_chunk'[1].page_num = page_num
                /\ current_chunk'[1].transcript_sentences = window_sentences
                /\ current_chunk'[1].similarities
                      = [k \in 1..Len(window_sentences) |-> similarity])]_vars

\* the entries of window_sentences, from position k on, that are not in seq
RECURSIVE NotYetIn(_, _, _)
NotYetIn(window_sentences, seq, k) ==
    IF k > Len(window_sentences) THEN <<>>
    ELSE IF Contains(seq, window_sentences[k])
         THEN NotYetIn(window_sentences, seq, k + 1)
         ELSE <<window_sentences[k]>> \o NotYetIn(window_sentences, seq, k + 1)

\* C15: a window whose best similarity reaches the threshold and whose best
\* slide is the open chunk's slide appends to the chunk exactly its sentences
\* that the chunk does not hold yet, in window order, each with the window's
\* similarity; the chunk's earlier sentences and similarities, its page number
\* and the output list stay as they were.
C15_OpenChunkExtended ==
    [][WindowStep =>
        LET window_sentences == Slice(sentence_list, i, window_size)
            similarity == MaxSimilarity(window_embedding'[1], slide_embeddings)
            page_num == FirstBestSlide(window_embedding'[1], slide_embeddings)
        IN  (/\ similarity >= similarity_threshold
             /\ current_chunk # None
             /\ current_chunk[1].page_num = page_num)
            => LET added == NotYetIn(window_sentences,
                                     current_chunk[1].transcript_sentences, 1)
               IN  /\ chunks' = chunks
                   /\ current_chunk' # None
                   /\ current_chunk'[1].page_num = page_num
                   /\ current_chunk'[1].slide_content = current_chunk[1].slide_content
                   /\ current_chunk'[1].transcript_sentences
                         = current_chunk[1].transcript_sentences \o added
                   /\ current_chunk'[1].similarities
                         = current_chunk[1].similarities
                              \o [k \in 1..Len(added) |-> similarity]]_vars

\* what C16 asks of one chunk
ChunkInvariant(chunk) ==
    /\ chunk.page_num \in Keys(slide_pages)
    /\ NoDuplicate(chunk.transcript_sentences)
    /\ Len(chunk.similarities) = Len(chunk.transcript_sentences)

\* C16: in every state of the window loop, the open chunk and every sealed
\* chunk have a page number that is a key of the slide map, a sentence list
\* without duplicate text and as many similarities as sentences; and a chunk's
\* page number never changes, while it is open, when it is sealed or after.
C16_ChunkInvariant ==
    /\ [](pc = "loop" =>
            /\ \A k \in 1..Len(chunks) : ChunkInvariant(chunks[k])
            /\ current_chunk # None => ChunkInvariant(current_chunk[1]))
    /\ [][(pc = "loop" /\ pc' = "loop") =>
            /\ Len(chunks') >= Len(chunks)
            /\ \A k \in 1..Len(chunks) : chunks'[k].page_num = chunks[k].page_num
            /\ current_chunk # None =>
                 \/ /\ chunks' = chunks
                    /\ current_chunk' # None
                    /\ current_chunk'[1].page_num = current_chunk[1].page_num
                 \/ /\ Len(chunks') = Len(chunks) + 1
                    /\ chunks'[Len(chunks')].page_num = current_chunk[1].page_num]_vars

\* a sealed chunk, and an open chunk that windows have extended
C16_Witness ==
    /\ pc = "loop"
    /\ chunks # <<>>
    /\ current_chunk # None
    /\ Len(current_chunk[1].transcript_sentences) > window_size
    /\ Len(slide_pages) >= 2

\* seq is an initial part of longer
IsPrefix(seq, longer) ==
    /\ Len(seq) <= Len(longer)
    /\ \A k \in 1..Len(seq) : longer[k] = seq[k]

\* C17: in a run that ends without error, every chunk that was opened is in
\* the returned list exactly once and in the order of opening, and no chunk
\* stays open at the return: a step of the loop leaves the output list as it
\* is while the open chunk stays open (with its sentences kept, under the same
\* page), or appends the open chunk and nothing else to it; the return gives
\* the output list followed by the chunk still open; a chunk in the output
\* list or in the returned list is never modified.
C17_EveryChunkReturnedOnce ==
    /\ [][(pc = "loop" /\ pc' = "loop") =>
            /\ IsPrefix(chunks, chunks')
            /\ current_chunk = None => chunks' = chunks
            /\ current_chunk # None =>
                 \/ /\ chunks' = chunks
                    /\ current_chunk' # None
                    /\ current_chunk'[1].page_num = current_chunk[1].page_num
                    /\ IsPrefix(current_chunk[1].transcript_sentences,
                                current_chunk'[1].transcript_sentences)
                 \/ chunks' = chunks \o current_chunk]_vars
    /\ [][(pc = "loop" /\ pc' = "returned") =>
            /\ returned' = <<IF current_chunk = None THEN chunks
                             ELSE chunks \o current_chunk>>
            /\ current_chunk' = None]_vars
    /\ [][(returned # None /\ returned' # None) => returned' = returned]_vars

\* a run returned two chunks, the last of which holds the last sentence
C17_Witness ==
    /\ pc = "returned"
    /\ error = ""
    /\ Len(returned[1]) >= 2
    /\ Contains(returned[1][Len(returned[1])].transcript_sentences,
                Len(sentence_list))

\* C18: after a run without error, the sentences found in some slide's
\* transcript list are exactly the sentences of the windows whose best
\* similarity reached the threshold, each sentence of such a window is in the
\* transcript list of that window's best slide, and the sentences of every
\* chunk are in strictly increasing position.
C18_MatchedSentencesAttributed ==
    pc = "assembled" =>
        /\ {sent \in 1..Len(sentence_list) : SlidesHolding(slide_data, sent) # {}}
              = {m[1] : m \in history.matched}
        /\ \A m \in history.matched :
              \E k \in SlidesHolding(slide_data, m[1]) : slide_data[k].page_num = m[2]
        /\ \A c \in 1..Len(returned[1]) :
              \A a, b \in 1..Len(returned[1][c].transcript_sentences) :
                 a < b => returned[1][c].transcript_sentences[a]
                             < returned[1][c].transcript_sentences[b]

=============================================================================
